---- MODULE Spec2Model ----
(***************************************************************************)
(* A model of flash.py: the project-creation pipeline                      *)
(* (Orchestrator.execute_pipeline) with its agents ProjectManager,         *)
(* DeveloperAgent, CodeReviewer and DevOpsAgent.                           *)
(*                                                                         *)
(* Python strings are sequences of one-character strings; a dict is the    *)
(* sequence of its <<key, value>> items in insertion order.                *)
(***************************************************************************)
EXTENDS Integers, Sequences, FiniteSets, TLC

\* ------------------------------------------------------------------------
\* Python str and dict primitives used by flash.py
\* ------------------------------------------------------------------------

\* The characters str.strip() removes.
Whitespace == {" ", "\t", "\n"}

\* s[:n]
Take(s, n) == SubSeq(s, 1, IF n < Len(s) THEN n ELSE Len(s))

\* s[n:]
Drop(s, n) == SubSeq(s, n + 1, Len(s))

\* s.startswith(p)
StartsWith(s, p) == Len(p) <= Len(s) /\ SubSeq(s, 1, Len(p)) = p

\* s.lstrip(chars)
RECURSIVE LStripChars(_, _)
LStripChars(s, chars) ==
    IF s # << >> /\ Head(s) \in chars THEN LStripChars(Tail(s), chars) ELSE s

\* s.rstrip(chars)
RECURSIVE RStripChars(_, _)
RStripChars(s, chars) ==
    IF s # << >> /\ s[Len(s)] \in chars
    THEN RStripChars(SubSeq(s, 1, Len(s) - 1), chars)
    ELSE s

\* s.strip(chars)
StripChars(s, chars) == RStripChars(LStripChars(s, chars), chars)

\* s.strip()
Strip(s) == StripChars(s, Whitespace)

\* s.replace(a, b) for one-character a and b
Replace(s, a, b) == [i \in 1..Len(s) |-> IF s[i] = a THEN b ELSE s[i]]

\* s.find(sep): the first index at which sep starts in s, 0 when there is none
RECURSIVE FindFrom(_, _, _)
FindFrom(s, sep, i) ==
    IF i + Len(sep) - 1 > Len(s) THEN 0
    ELSE IF SubSeq(s, i, i + Len(sep) - 1) = sep THEN i
    ELSE FindFrom(s, sep, i + 1)

\* s.split(sep) for a non-empty sep: the list of the pieces, never empty
RECURSIVE Split(_, _)
Split(s, sep) ==
    LET i == FindFrom(s, sep, 1)
    IN  IF i = 0 THEN << s >>
        ELSE << SubSeq(s, 1, i - 1) >> \o Split(Drop(s, i + Len(sep) - 1), sep)

\* sep.join(parts) for a one-character sep
RECURSIVE Join(_, _)
Join(parts, sep) ==
    IF parts = << >> THEN << >>
    ELSE IF Len(parts) = 1 THEN parts[1]
    ELSE parts[1] \o << sep >> \o Join(Tail(parts), sep)

\* s.lower() on the letters the model uses
LowerChar(c) == IF c = "A" THEN "a" ELSE IF c = "P" THEN "p" ELSE c
Lower(s) == [i \in 1..Len(s) |-> LowerChar(s[i])]

\* dict: the sequence of <<key, value>> items, keys distinct
Keys(d) == {d[i][1] : i \in 1..Len(d)}
HasKey(d, k) == \E i \in 1..Len(d) : d[i][1] = k
Get(d, k) == d[CHOOSE i \in 1..Len(d) : d[i][1] = k][2]

\* d[k] = v: an existing key keeps its place, a new one goes last
DictSet(d, k, v) ==
    IF HasKey(d, k)
    THEN [i \in 1..Len(d) |-> IF d[i][1] = k THEN << k, v >> ELSE d[i]]
    ELSE Append(d, << k, v >>)

\* A merge in which a key that d holds keeps its value
RECURSIVE DictUpdateFirstWins(_, _)
DictUpdateFirstWins(d, e) ==
    IF e = << >> THEN d
    ELSE DictUpdateFirstWins(IF HasKey(d, e[1][1]) THEN d
                             ELSE DictSet(d, e[1][1], e[1][2]),
                             Tail(e))

\* d.update(e)
RECURSIVE DictUpdate(_, _)
DictUpdate(d, e) ==
    IF e = << >> THEN d
    ELSE DictUpdate(DictSet(d, e[1][1], e[1][2]), Tail(e))

\* ------------------------------------------------------------------------
\* Literals of flash.py
\* ------------------------------------------------------------------------

FILE_TAG == << "F", "I", "L", "E", ":" >>
TASKS_TAG == << "T", "A", "S", "K", "S", ":" >>
PROJECT_NAME_TAG ==
    << "P", "R", "O", "J", "E", "C", "T", "_", "N", "A", "M", "E", ":" >>
\* The backquote character is written "^": a TLA+ string cannot hold it
BQ == "^"
FENCE == << BQ, BQ, BQ >>
NL == "\n"

\* None of Python: no string is equal to it
None == << "<None>" >>

\* [:30] of _generate_project_name and _parse_response
NameMaxLen == 30
\* user_request[:20] of _generate_fallback_name
SlugMaxLen == 20
\* [-6:] of _generate_fallback_name
StampLen == 6

\* "project", "Project_", "project_", "new_project"
DefaultSlug == << "p", "r", "o", "j", "e", "c", "t" >>
FallbackPrefix == << "P", "r", "o", "j", "e", "c", "t", "_" >>
ParsePrefix == << "p", "r", "o", "j", "e", "c", "t", "_" >>
DefaultProjectDir == << "n", "e", "w", "_" >> \o DefaultSlug

\* The enhancements list of execute_pipeline has four entries
NumEnhancements == 4

\* What a call returns: a value, or an exception raised
Ok(v) == [raised |-> FALSE, value |-> v]
Raise(e) == [raised |-> TRUE, value |-> e]

\* ------------------------------------------------------------------------
\* AIModel
\* ------------------------------------------------------------------------

\* generate with its except clause dropping the error for an empty text
GenerateSwallowing(provider) == IF provider.raised THEN Ok(<< >>) ELSE provider

\* AIModel.generate, given what the provider call returned or raised: the
\* except clause logs the error and raises it again
Generate(provider) == provider

\* ------------------------------------------------------------------------
\* ProjectManager
\* ------------------------------------------------------------------------

\* _generate_fallback_name: Project_<slug>_<last six digits of the clock>
GenerateFallbackName(user_request, now) ==
    LET clean0 == IF user_request # << >>
                  THEN Replace(Lower(Take(user_request, SlugMaxLen)), " ", "_")
                  ELSE DefaultSlug
        clean1 == StripChars(clean0, {"_"})
        clean_request == IF clean1 # << >> THEN clean1 ELSE DefaultSlug
        timestamp == Drop(now, IF Len(now) > StampLen THEN Len(now) - StampLen ELSE 0)
    IN  FallbackPrefix \o clean_request \o << "_" >> \o timestamp

\* The sanitizing of the raw name, lines 271-276
SanitizeName(text) ==
    LET raw_name == Strip(text)
        first == Split(raw_name, << NL >>)[1]
        parts == Split(first, << ":" >>)
        s1 == Strip(parts[Len(parts)])
        s2 == Take(Replace(Replace(s1, " ", "_"), "-", "_"), NameMaxLen)
    IN  StripChars(s2, {"_"})

\* _generate_project_name without its except clause
GenerateProjectNameUncaught(backend, user_request, now) ==
    IF backend.raised
    THEN backend
    ELSE LET sanitized == SanitizeName(backend.value)
         IN  IF sanitized = << >> THEN Raise("ValueError") ELSE Ok(sanitized)

\* _generate_project_name, given what the backend call returned or raised.
\* Every exception of the try block, the ValueError of an empty name
\* included, is caught and replaced by the fallback name.
GenerateProjectName(backend, user_request, now) ==
    IF backend.raised
    THEN Ok(GenerateFallbackName(user_request, now))
    ELSE LET sanitized == SanitizeName(backend.value)
         IN  IF sanitized = << >>
             THEN Ok(GenerateFallbackName(user_request, now))
             ELSE Ok(sanitized)

\* One line of the loop of _parse_response on the parser state
\* [project_name, tasks, files, current_file]
ParseResponseLine(st, raw_line) ==
    LET line == Strip(raw_line)
    IN  IF StartsWith(line, PROJECT_NAME_TAG)
        THEN LET new_name == Take(Strip(Split(line, PROJECT_NAME_TAG)[2]), NameMaxLen)
             IN  IF new_name # << >> THEN [st EXCEPT !.project_name = new_name] ELSE st
        ELSE IF StartsWith(line, TASKS_TAG)
        THEN LET items == Split(Split(line, TASKS_TAG)[2], << "," >>)
             IN  [st EXCEPT !.tasks = [i \in 1..Len(items) |-> Strip(items[i])]]
        ELSE IF StartsWith(line, FILE_TAG)
        THEN [st EXCEPT !.current_file = Strip(Split(line, FILE_TAG)[2])]
        ELSE IF StartsWith(line, FENCE)
        THEN [st EXCEPT !.current_file = None]
        ELSE IF st.current_file # None /\ st.current_file # << >>
        THEN LET old == IF HasKey(st.files, st.current_file)
                        THEN Get(st.files, st.current_file) ELSE << >>
             IN  [st EXCEPT !.files = DictSet(st.files, st.current_file, Append(old, line))]
        ELSE st

RECURSIVE ParseResponseLines(_, _)
ParseResponseLines(st, lines) ==
    IF lines = << >> THEN st
    ELSE ParseResponseLines(ParseResponseLine(st, Head(lines)), Tail(lines))

\* _parse_response: the plan {project_name, tasks, project_structure}
ParseResponse(response, project_name, now) ==
    LET st == ParseResponseLines(
                  [project_name |-> project_name, tasks |-> << >>,
                   files |-> << >>, current_file |-> None],
                  Split(response, << NL >>))
    IN  [project_name |-> IF st.project_name = << >> THEN ParsePrefix \o now
                          ELSE st.project_name,
         tasks |-> st.tasks,
         project_structure |->
             [i \in 1..Len(st.files) |-> << st.files[i][1], Join(st.files[i][2], NL) >>]]

\* ------------------------------------------------------------------------
\* DeveloperAgent
\* ------------------------------------------------------------------------

\* _extract_code with a fence line clearing the cursor, as _parse_response does
ExtractCodeLineFenceClears(st, line) ==
    IF StartsWith(line, FILE_TAG)
    THEN LET f == Strip(Split(line, FILE_TAG)[2])
         IN  [files |-> DictSet(st.files, f, << >>), current_file |-> f]
    ELSE IF StartsWith(line, FENCE)
    THEN [st EXCEPT !.current_file = None]
    ELSE IF st.current_file # None /\ st.current_file # << >>
    THEN [st EXCEPT !.files =
             DictSet(st.files, st.current_file, Append(Get(st.files, st.current_file), line))]
    ELSE st

\* One line of the loop of _extract_code on the state [files, current_file]
ExtractCodeLine(st, line) ==
    IF StartsWith(line, FILE_TAG)
    THEN LET f == Strip(Split(line, FILE_TAG)[2])
         IN  [files |-> DictSet(st.files, f, << >>), current_file |-> f]
    ELSE IF StartsWith(line, FENCE)
    THEN st
    ELSE IF st.current_file # None /\ st.current_file # << >>
    THEN [st EXCEPT !.files =
             DictSet(st.files, st.current_file, Append(Get(st.files, st.current_file), line))]
    ELSE st

RECURSIVE ExtractCodeLines(_, _)
ExtractCodeLines(st, lines) ==
    IF lines = << >> THEN st
    ELSE ExtractCodeLines(ExtractCodeLine(st, Head(lines)), Tail(lines))

\* The dict comprehension of line 359: the items with a non-empty line list
RECURSIVE JoinNonEmpty(_)
JoinNonEmpty(files) ==
    IF files = << >> THEN << >>
    ELSE LET rest == JoinNonEmpty(Tail(files))
         IN  IF files[1][2] # << >>
             THEN << << files[1][1], Strip(Join(files[1][2], NL)) >> >> \o rest
             ELSE rest

\* _extract_code
ExtractCode(response) ==
    JoinNonEmpty(ExtractCodeLines([files |-> << >>, current_file |-> None],
                                  Split(response, << NL >>)).files)

\* generate_code returning new_code whatever the reviewer answered
GenerateCodeUnreviewed(new_code, approved) == new_code

\* What generate_code returns once the review of new_code has answered
GenerateCodeResult(new_code, approved) == IF approved THEN new_code ELSE << >>

\* ------------------------------------------------------------------------
\* os.path
\* ------------------------------------------------------------------------

SLASH == "/"

\* The working directory of the process
Cwd == << SLASH, "w" >>

\* os.path.isabs
IsAbs(p) == StartsWith(p, << SLASH >>)

\* os.path.join(a, b)
JoinPath(a, b) ==
    IF IsAbs(b) THEN b
    ELSE IF a = << >> \/ a[Len(a)] = SLASH THEN a \o b
    ELSE a \o << SLASH >> \o b

\* The component loop of os.path.normpath
RECURSIVE NormComps(_, _, _)
NormComps(comps, new_comps, rooted) ==
    IF comps = << >> THEN new_comps
    ELSE LET comp == Head(comps)
             n == Len(new_comps)
         IN  IF comp = << >> \/ comp = << "." >>
             THEN NormComps(Tail(comps), new_comps, rooted)
             ELSE IF comp # << ".", "." >>
                     \/ (~rooted /\ n = 0)
                     \/ (n > 0 /\ new_comps[n] = << ".", "." >>)
             THEN NormComps(Tail(comps), Append(new_comps, comp), rooted)
             ELSE IF n > 0
             THEN NormComps(Tail(comps), SubSeq(new_comps, 1, n - 1), rooted)
             ELSE NormComps(Tail(comps), new_comps, rooted)

\* os.path.normpath
NormPath(p) ==
    IF p = << >> THEN << "." >>
    ELSE LET slashes == IF ~IsAbs(p) THEN << >>
                        ELSE IF StartsWith(p, << SLASH, SLASH >>)
                                /\ ~StartsWith(p, << SLASH, SLASH, SLASH >>)
                        THEN << SLASH, SLASH >>
                        ELSE << SLASH >>
             path == slashes \o Join(NormComps(Split(p, << SLASH >>), << >>, IsAbs(p)), SLASH)
         IN  IF path = << >> THEN << "." >> ELSE path

\* os.path.abspath
AbsPath(p) == NormPath(IF IsAbs(p) THEN p ELSE JoinPath(Cwd, p))

\* os.path.dirname
Dirname(p) ==
    LET parts == Split(p, << SLASH >>)
        head == Join(SubSeq(parts, 1, Len(parts) - 1), SLASH)
             \o (IF Len(parts) > 1 THEN << SLASH >> ELSE << >>)
        stripped == RStripChars(head, {SLASH})
    IN  IF stripped = << >> THEN head ELSE stripped

\* The directories os.makedirs(d, exist_ok=True) leaves existing
RECURSIVE MakeDirs(_)
MakeDirs(d) ==
    IF d = << >> \/ Dirname(d) = d THEN {d} ELSE {d} \cup MakeDirs(Dirname(d))

\* ------------------------------------------------------------------------
\* DevOpsAgent
\* ------------------------------------------------------------------------

\* The directory deploy_project deploys to, lines 373-381
DeployDir(name) ==
    LET project_dir == IF Strip(name) = << >> THEN DefaultProjectDir ELSE Strip(name)
    IN  AbsPath(NormPath(project_dir))

\* The file _write_project_files opens for file_path, line 394
WritePath(project_dir, file_path) == JoinPath(project_dir, file_path)

\* ------------------------------------------------------------------------
\* What the outside gives one run: the user, the backend, the clock
\* ------------------------------------------------------------------------

\* The most tasks a plan response lists
MaxTasks == 2

PathA == << "a" >>
PathB == << "b" >>
FileLine(path) == FILE_TAG \o << " " >> \o path
Section(path, content) == << FileLine(path), FENCE, content, FENCE >>
Lines(lines) == Join(lines, NL)
TasksLine(n) == TASKS_TAG \o << " " >> \o Join([i \in 1..n |-> << "t" >>], ",")
Chat == << "o", "k" >>

\* What the user types at the feature menu: numbers, or text int() rejects
MenuInputs == {Raise("ValueError")} \cup {Ok(<< n >>) : n \in {-4, -3, 4, 5}}

Requests == {<< "A", " ", "b" >>}
Clocks == {<< "1", "7", "0", "0", "0", "0", "0", "1", "2", "3" >>}

\* What AIModel.generate returns or raises for the three prompts
BackendError == Raise("BackendError")
NameOutcomes == {BackendError, Ok(<< "N", "m" >>), Ok(<< " " >>)}
PlanOutcomes ==
    {BackendError, Ok(Chat), Ok(TASKS_TAG)}
    \cup {Ok(TasksLine(n)) : n \in 1..MaxTasks}
    \cup {Ok(Lines(<< PROJECT_NAME_TAG \o << " ", "P", " ", "q" >>, TasksLine(1) >>))}
CodeOutcomes ==
    {BackendError, Ok(Chat),
     Ok(Lines(Section(PathA, << "x" >>))),
     Ok(Lines(Section(PathB, << "y" >>))),
     Ok(Lines(Section(PathA, << "y" >>) \o Section(PathB, << "x" >>)))}

\* ------------------------------------------------------------------------
\* The state of one run of Orchestrator.execute_pipeline
\* ------------------------------------------------------------------------

VARIABLES
    pc,             \* where execute_pipeline stands
    err,            \* the exception that ended the run, "" while there is none
    user_request,   \* the argument of execute_pipeline
    now,            \* the decimal digits of int(time.time())
    selected,       \* the indices show_menu returned
    project_name,   \* project_name of create_project_plan
    project_plan,   \* the plan create_project_plan returned
    task_idx,       \* the position of the task loop in project_plan.tasks
    response,       \* what the provider returned or raised in the last backend call
    new_code,       \* new_code of generate_code
    code_artifacts, \* the dict the task loop merges into
    root,           \* full_path of deploy_project
    write_idx,      \* the position of _write_project_files in the batch
    dirs,           \* the directories that exist
    fs,             \* the files that exist: <<normalized path, content>>
    calls,          \* history: the backend calls made
    reviews,        \* history: the calls of review_changes and their answers
    deploys,        \* history: the number of calls of deploy_project
    writes,         \* history: the <<file_path, content>> items written
    name_checked,   \* history: line 492 has been passed
    once,           \* history: dirs and fs when deploy_project first returned
    db              \* the state of DatabaseManager and of apply_migrations

vars == << pc, err, user_request, now, selected, project_name, project_plan,
           task_idx, response, new_code, code_artifacts, root, write_idx,
           dirs, fs, calls, reviews, deploys, writes, name_checked, once, db >>

NoPlan == [project_name |-> << >>, tasks |-> << >>, project_structure |-> << >>]

\* Nothing but the working directory exists
EmptyDisk == [dirs |-> MakeDirs(Cwd), fs |-> {}]

\* No deploy_project has returned yet
NoSnap == [dirs |-> {}, fs |-> {}]

\* A DatabaseManager that no pipeline run uses
NoDb == [pc |-> "idle", files |-> << >>, config |-> << >>, applied |-> << >>,
         idx |-> 1, returned |-> 0, ran |-> << >>]

InitOn(requests, disks, dbs) ==
    /\ pc = "menu"
    /\ err = ""
    /\ user_request \in requests
    /\ now \in Clocks
    /\ selected = << >>
    /\ project_name = << >>
    /\ project_plan = NoPlan
    /\ task_idx = 1
    /\ response = Ok(<< >>)
    /\ new_code = << >>
    /\ code_artifacts = << >>
    /\ root = None
    /\ write_idx = 1
    /\ \E disk \in disks : dirs = disk.dirs /\ fs = disk.fs
    /\ calls = << >>
    /\ reviews = << >>
    /\ deploys = 0
    /\ writes = << >>
    /\ name_checked = FALSE
    /\ once = NoSnap
    /\ db \in dbs

InitWith(requests) == InitOn(requests, {EmptyDisk}, {NoDb})

Init == InitWith(Requests)

\* The except clause of execute_pipeline: log and re-raise
Fail(e) == pc' = "failed" /\ err' = e

\* ConsoleUI.show_menu, line 481
ShowMenu(inputs) ==
    /\ pc = "menu"
    /\ \E in \in inputs :
         IF in.raised
         THEN Fail(in.value) /\ UNCHANGED selected
         ELSE /\ selected' = [i \in 1..Len(in.value) |-> in.value[i] - 1]
              /\ pc' = "name"
              /\ UNCHANGED err
    /\ UNCHANGED << user_request, now, project_name, project_plan, task_idx,
                    response, new_code, code_artifacts, root, write_idx, dirs,
                    fs, calls, reviews, deploys, writes, name_checked >>
    /\ UNCHANGED << once, db >>

\* create_project_plan, line 232: the backend call of _generate_project_name
GenerateName(outcomes) ==
    /\ pc = "name"
    /\ \E out \in outcomes :
         LET r == GenerateProjectName(Generate(out), user_request, now)
         IN  /\ response' = out
             /\ IF r.raised
                THEN Fail(r.value) /\ UNCHANGED project_name
                ELSE project_name' = r.value /\ pc' = "plan" /\ UNCHANGED err
    /\ calls' = Append(calls, "name")
    /\ UNCHANGED << user_request, now, selected, project_plan, task_idx,
                    new_code, code_artifacts, root, write_idx, dirs, fs,
                    reviews, deploys, writes, name_checked >>
    /\ UNCHANGED << once, db >>

\* create_project_plan, lines 250-255: the plan's backend call and its parsing
GeneratePlan(outcomes) ==
    /\ pc = "plan"
    /\ \E provider \in outcomes :
         LET out == Generate(provider)
         IN
         /\ response' = provider
         /\ IF out.raised
            THEN Fail(out.value) /\ UNCHANGED project_plan
            ELSE /\ project_plan' = ParseResponse(out.value, project_name, now)
                 /\ pc' = "gen"
                 /\ UNCHANGED err
    /\ calls' = Append(calls, "plan")
    /\ task_idx' = 1
    /\ UNCHANGED << user_request, now, selected, project_name, new_code,
                    code_artifacts, root, write_idx, dirs, fs, reviews,
                    deploys, writes, name_checked >>
    /\ UNCHANGED << once, db >>

\* generate_code, lines 334-338: the backend call of one task and _extract_code
GenerateCode(outcomes) ==
    /\ pc = "gen"
    /\ task_idx <= Len(project_plan.tasks)
    /\ \E provider \in outcomes :
         LET out == Generate(provider)
         IN
         /\ response' = provider
         /\ IF out.raised
            THEN Fail(out.value) /\ UNCHANGED new_code
            ELSE new_code' = ExtractCode(out.value) /\ pc' = "review" /\ UNCHANGED err
    /\ calls' = Append(calls, "code")
    /\ UNCHANGED << user_request, now, selected, project_name, project_plan,
                    task_idx, code_artifacts, root, write_idx, dirs, fs,
                    reviews, deploys, writes, name_checked >>
    /\ UNCHANGED << once, db >>

\* The content of the file at a normalized path, None when there is none
ReadFile(files, loc) ==
    IF \E f \in files : f[1] = loc
    THEN (CHOOSE f \in files : f[1] = loc)[2]
    ELSE None

\* The file a relative or absolute filename names for open(filename)
OpenPath(filename) == AbsPath(filename)

\* _get_existing_code, lines 363-366, when open does not raise: the content
\* of the file, "" when os.path.exists answers no
GetExistingCode(filename) ==
    IF ReadFile(fs, OpenPath(filename)) = None THEN << >>
    ELSE ReadFile(fs, OpenPath(filename))

\* generate_code, line 339: the existing code of every path of new_code
ExistingCode(code) ==
    [i \in 1..Len(code) |-> << code[i][1], GetExistingCode(code[i][1]) >>]

\* generate_code, lines 339-343, and the merge of line 489: the existing
\* code is read (open raises for a path that exists as a directory), the
\* reviewer answers for new_code, and what generate_code returns is merged
Review ==
    /\ pc = "review"
    /\ IF \E i \in 1..Len(new_code) : OpenPath(new_code[i][1]) \in dirs
       THEN Fail("IsADirectoryError")
            /\ UNCHANGED << reviews, code_artifacts, task_idx >>
       ELSE /\ \E approved \in BOOLEAN :
                 /\ reviews' = Append(reviews,
                                      [task |-> task_idx, batch |-> new_code,
                                       existing |-> ExistingCode(new_code),
                                       approved |-> approved])
                 /\ code_artifacts' =
                        DictUpdate(code_artifacts, GenerateCodeResult(new_code, approved))
            /\ task_idx' = task_idx + 1
            /\ pc' = "gen"
            /\ UNCHANGED err
    /\ UNCHANGED << user_request, now, selected, project_name,
                    project_plan, response, new_code, root, write_idx, dirs,
                    fs, calls, deploys, writes, name_checked >>
    /\ UNCHANGED << once, db >>

\* The statements after the loop reached before the loop is over
NameCheckEarly ==
    /\ pc = "gen"
    /\ pc' = "args"
    /\ name_checked' = TRUE
    /\ UNCHANGED << err, user_request, now, selected, project_name,
                    project_plan, task_idx, response, new_code, code_artifacts,
                    root, write_idx, dirs, fs, calls, reviews, deploys, writes,
                    once, db >>

\* Lines 492-493, reached when the task loop is over
NameCheck ==
    /\ pc = "gen"
    /\ task_idx > Len(project_plan.tasks)
    /\ IF project_plan.project_name = << >>
       THEN Fail("ValueError")
       ELSE pc' = "args" /\ UNCHANGED err
    /\ name_checked' = TRUE
    /\ UNCHANGED << user_request, now, selected, project_name, project_plan,
                    task_idx, response, new_code, code_artifacts, root,
                    write_idx, dirs, fs, calls, reviews, deploys, writes >>
    /\ UNCHANGED << once, db >>

\* enhancements[i] of a list of four
ValidIndex(i) == -NumEnhancements <= i /\ i <= NumEnhancements - 1

\* Lines 497-501: the argument of deploy_project is built before the call
BuildDeployArgs ==
    /\ pc = "args"
    /\ IF \E i \in 1..Len(selected) : ~ValidIndex(selected[i])
       THEN Fail("IndexError")
       ELSE pc' = "deploy" /\ UNCHANGED err
    /\ UNCHANGED << user_request, now, selected, project_name, project_plan,
                    task_idx, response, new_code, code_artifacts, root,
                    write_idx, dirs, fs, calls, reviews, deploys, writes,
                    name_checked >>
    /\ UNCHANGED << once, db >>

\* A file opened for appending: what it held stays before the content
WriteContentAppending(old, content) == IF old = None THEN content ELSE old \o content

\* What open(full_path, 'w') and f.write(content) leave in a file that held
\* old (None when there was no file)
WriteContent(old, content) == content

\* The directories os.makedirs(d, exist_ok=True) leaves, by normalized path
MadeDirs(d) == {NormPath(x) : x \in MakeDirs(d)}

\* deploy_project, lines 373-382: the project directory is made, or
\* os.makedirs raises
DeployMkdir ==
    /\ pc = "deploy"
    /\ deploys' = deploys + 1
    /\ \/ /\ root' = DeployDir(project_plan.project_name)
          /\ dirs' = dirs \cup MadeDirs(root')
          /\ pc' = "write"
          /\ UNCHANGED err
       \/ Fail("OSError") /\ UNCHANGED << root, dirs >>
    /\ write_idx' = 1
    /\ UNCHANGED << user_request, now, selected, project_name, project_plan,
                    task_idx, response, new_code, code_artifacts, fs, calls,
                    reviews, writes, name_checked >>
    /\ UNCHANGED << once, db >>

\* Whether lines 395-397 can succeed for full_path: no directory to make is
\* a file, and the path to open is not a directory
CanWrite(full_path) ==
    /\ \A d \in MadeDirs(Dirname(full_path)) : ReadFile(fs, d) = None
    /\ NormPath(full_path) \notin dirs \cup MadeDirs(Dirname(full_path))
    /\ full_path[Len(full_path)] # SLASH

\* A failure after which the files already written are removed
WriteFailureRollingBack ==
    Fail("OSError") /\ fs' = {} /\ UNCHANGED << dirs, writes, write_idx >>

\* deploy_project, lines 387-389, for an error of _write_project_files:
\* logged and raised again, with what is written left as it is
WriteFailure == Fail("OSError") /\ UNCHANGED << dirs, fs, writes, write_idx >>

\* _write_project_files, lines 393-398: one item of the batch is written,
\* or os.makedirs, open or write raises
WriteFile ==
    /\ pc = "write"
    /\ write_idx <= Len(code_artifacts)
    /\ LET file_path == code_artifacts[write_idx][1]
           content == code_artifacts[write_idx][2]
           full_path == WritePath(root, file_path)
           loc == NormPath(full_path)
       IN  \/ /\ CanWrite(full_path)
              /\ dirs' = dirs \cup MadeDirs(Dirname(full_path))
              /\ fs' = {f \in fs : f[1] # loc}
                       \cup {<< loc, WriteContent(ReadFile(fs, loc), content) >>}
              /\ writes' = Append(writes, << file_path, content >>)
              /\ write_idx' = write_idx + 1
              /\ UNCHANGED << pc, err >>
           \/ WriteFailure
    /\ UNCHANGED << user_request, now, selected, project_name, project_plan,
                    task_idx, response, new_code, code_artifacts, root, calls,
                    reviews, deploys, name_checked, once, db >>

\* deploy_project, line 385: every item is written, the call returns
DeployDone ==
    /\ pc = "write"
    /\ write_idx > Len(code_artifacts)
    /\ pc' = "done"
    /\ once' = IF deploys = 1 THEN [dirs |-> dirs, fs |-> fs] ELSE once
    /\ UNCHANGED << err, user_request, now, selected, project_name,
                    project_plan, task_idx, response, new_code, code_artifacts,
                    root, write_idx, dirs, fs, calls, reviews, deploys, writes,
                    name_checked, db >>

Next ==
    \/ ShowMenu(MenuInputs)
    \/ GenerateName(NameOutcomes)
    \/ GeneratePlan(PlanOutcomes)
    \/ GenerateCode(CodeOutcomes)
    \/ Review
    \/ NameCheck
    \/ BuildDeployArgs
    \/ DeployMkdir
    \/ WriteFile
    \/ DeployDone

Spec == Init /\ [][Next]_vars

\* ------------------------------------------------------------------------
\* Properties of the pipeline
\* ------------------------------------------------------------------------

CountCalls(kind) == Cardinality({i \in 1..Len(calls) : calls[i] = kind})
LastCall == IF calls = << >> THEN "" ELSE calls[Len(calls)]
Rejected == {j \in 1..Len(reviews) : ~reviews[j].approved}
Approved == {j \in 1..Len(reviews) : reviews[j].approved}
GeneratedPaths == UNION {Keys(reviews[j].batch) : j \in 1..Len(reviews)}
WrittenPaths == {writes[i][1] : i \in 1..Len(writes)}

C2_AllOrNothing ==
    pc = "done" => (WrittenPaths = GeneratedPaths \/ WrittenPaths = {})

\* C3: once the reviewer has rejected changes the Deployer is not invoked,
\* no directory and no file is created, and the run does not fail for it
C3_RejectionSkipsDeploy ==
    Rejected # {} => (deploys = 0 /\ root = None /\ writes = << >>
                      /\ dirs = MakeDirs(Cwd))

\* C4: the review is invoked once in a run, and only when the backend call
\* of every task of the plan has been made
C4_OneReviewAfterAllTasks ==
    /\ Len(reviews) <= 1
    /\ reviews # << >> => CountCalls("code") = Len(project_plan.tasks)
    /\ pc = "done" => Len(reviews) = 1

\* C5: the project name is checked before the task loop: no backend call
\* for code generation and no write is made before the check
C5_NameCheckedBeforeGeneration ==
    (CountCalls("code") > 0 \/ writes # << >>) => name_checked

\* C6: with an empty task list the run still invokes the review, on an
\* empty batch, and on approval ends done with no file written
C6_EmptyPlanIsReviewed ==
    (pc = "done" /\ project_plan.tasks = << >>) =>
        (/\ Len(reviews) = 1
         /\ reviews[1].batch = << >>
         /\ reviews[1].approved
         /\ writes = << >>)

\* C7: when the provider call for the plan or for a task raises, the run is
\* failed with that error and nothing runs after it: no later backend call
\* (the raising call is the last one, made once for its task), no call of
\* the Deployer, no directory or file written
C7_BackendFailureEndsRun ==
    (response.raised /\ LastCall \in {"plan", "code"}) =>
        /\ pc = "failed"
        /\ err = BackendError.value
        /\ ~ENABLED Next
        /\ CountCalls("plan") = 1
        /\ CountCalls("code") = (IF LastCall = "plan" THEN 0 ELSE task_idx)
        /\ Len(reviews) = CountCalls("code") - (IF LastCall = "plan" THEN 0 ELSE 1)
        /\ deploys = 0
        /\ root = None
        /\ writes = << >>
        /\ fs = {}

\* C7 witness: the backend call of the second task raised after the first
\* task was generated and approved
C7_Witness ==
    /\ pc = "failed"
    /\ response.raised
    /\ LastCall = "code"
    /\ task_idx = 2
    /\ code_artifacts # << >>

\* ------------------------------------------------------------------------
\* Name generation and plan parsing on a wide range of backend texts
\* ------------------------------------------------------------------------

\* The most runs of one character a name text is made of
MaxRuns == 2

Rep(c, n) == [i \in 1..n |-> c]
NameChars == {"a", " ", "-", "_", ":", NL}
RunLens == {1, NameMaxLen}

RECURSIVE RunTexts(_)
RunTexts(k) ==
    IF k = 0 THEN {<< >>}
    ELSE LET prev == RunTexts(k - 1)
         IN  prev \cup {t \o Rep(c, n) : t \in prev, c \in NameChars, n \in RunLens}

WideRequests ==
    {<< >>, << " " >>, << "A", " ", "b" >>, << "a", "-", "b" >>, Rep("a", SlugMaxLen + 5)}
WideNameOutcomes == {BackendError} \cup {Ok(t) : t \in RunTexts(MaxRuns)}
WidePlanOutcomes ==
    {BackendError, Ok(Chat), Ok(PROJECT_NAME_TAG),
     Ok(PROJECT_NAME_TAG \o << " ", "P", " ", "q" >>),
     Ok(PROJECT_NAME_TAG \o Rep("a", NameMaxLen - 1) \o << " ", "b" >>)}
OneMenuInput == {Ok(<< 1 >>)}

InitName == InitWith(WideRequests)

NextName ==
    \/ ShowMenu(OneMenuInput)
    \/ GenerateName(WideNameOutcomes)
    \/ GeneratePlan(WidePlanOutcomes)

SpecName == InitName /\ [][NextName]_vars

Digits == {"0", "1", "2", "3", "4", "5", "6", "7", "8", "9"}

\* Project_<slug>_<6 digits>
IsFallbackName(n) ==
    /\ StartsWith(n, FallbackPrefix)
    /\ Len(n) >= Len(FallbackPrefix) + 1 + 1 + StampLen
    /\ n[Len(n) - StampLen] = "_"
    /\ \A i \in (Len(n) - StampLen + 1)..Len(n) : n[i] \in Digits

\* C8: whatever the backend call for the name returns or raises, name
\* generation hands create_project_plan a non-empty name and the run goes on
\* to the plan; a raised error and an empty or whitespace-only text give the
\* fallback name Project_<slug>_<6 digits>
C8_NameGenerationNeverFails ==
    LastCall = "name" =>
        /\ pc = "plan"
        /\ err = ""
        /\ project_name # << >>
        /\ (response.raised \/ Strip(response.value) = << >>)
               => IsFallbackName(project_name)

\* C8 witness: the backend call for the name raised and the fallback is used
C8_Witness ==
    /\ LastCall = "name"
    /\ response.raised
    /\ pc = "plan"
    /\ IsFallbackName(project_name)

\* C9: the name of the plan create_project_plan returns is not empty, has at
\* most 30 characters and holds no space and no hyphen
C9_PlanNameSanitized ==
    pc = "gen" =>
        LET n == project_plan.project_name
        IN  /\ n # << >>
            /\ Len(n) <= NameMaxLen
            /\ \A i \in 1..Len(n) : n[i] \notin {" ", "-"}

\* ------------------------------------------------------------------------
\* _extract_code on a wide range of responses
\* ------------------------------------------------------------------------

\* The most blocks of lines a code response is made of
MaxBlocks == 3

SectionOf(header, open, content) == << header, open >> \o content \o << FENCE >>

ParseBlocks ==
    {SectionOf(FileLine(PathA), FENCE, << << "x" >> >>),
     SectionOf(FILE_TAG \o << " ", " " >> \o PathB \o << " " >>, FENCE \o << "p", "y" >>,
               << << " ", "x" >>, << >>, << "y", " " >> >>),
     SectionOf(FILE_TAG \o PathA, FENCE, << << >>, << "y" >>, << >> >>),
     SectionOf(FileLine(PathB), FENCE, << << " " >> >>),
     SectionOf(FileLine(PathA), FENCE, << >>),
     << Chat >>,
     << FileLine(PathB) >>,
     << FENCE >>,
     << << >> >>}

RECURSIVE BlockLines(_)
BlockLines(k) ==
    IF k = 0 THEN {<< >>}
    ELSE LET prev == BlockLines(k - 1)
         IN  prev \cup {t \o b : t \in prev, b \in ParseBlocks}

WideCodeOutcomes == {Ok(Lines(ls)) : ls \in BlockLines(MaxBlocks)}
OneNameOutcome == {Ok(<< "N", "m" >>)}
OnePlanOutcome == {Ok(TasksLine(1))}

NextParse ==
    \/ ShowMenu(OneMenuInput)
    \/ GenerateName(OneNameOutcome)
    \/ GeneratePlan(OnePlanOutcome)
    \/ GenerateCode(WideCodeOutcomes)

SpecParse == Init /\ [][NextParse]_vars

\* The form C10 is about, read line by line: lines before the first FILE:
\* line, then sections, each a FILE: line, an opening fence line, content
\* lines (neither FILE: lines nor fence lines) and a closing fence line
SectionsStep(r, line) ==
    IF ~r.ok THEN r
    ELSE IF r.phase = "pre"
    THEN IF StartsWith(line, FILE_TAG)
         THEN [r EXCEPT !.phase = "open", !.path = Strip(Drop(line, Len(FILE_TAG)))]
         ELSE r
    ELSE IF r.phase = "open"
    THEN IF StartsWith(line, FENCE) THEN [r EXCEPT !.phase = "body", !.body = << >>]
         ELSE [r EXCEPT !.ok = FALSE]
    ELSE IF r.phase = "body"
    THEN IF StartsWith(line, FENCE)
         THEN [r EXCEPT !.phase = "next",
                        !.secs = Append(r.secs, [path |-> r.path, body |-> r.body])]
         ELSE IF StartsWith(line, FILE_TAG) THEN [r EXCEPT !.ok = FALSE]
         ELSE [r EXCEPT !.body = Append(r.body, line)]
    ELSE IF StartsWith(line, FILE_TAG)
    THEN [r EXCEPT !.phase = "open", !.path = Strip(Drop(line, Len(FILE_TAG)))]
    ELSE [r EXCEPT !.ok = FALSE]

RECURSIVE SectionsFold(_, _)
SectionsFold(r, lines) ==
    IF lines = << >> THEN r ELSE SectionsFold(SectionsStep(r, Head(lines)), Tail(lines))

Sections(text) ==
    SectionsFold([ok |-> TRUE, phase |-> "pre", path |-> << >>, body |-> << >>,
                  secs |-> << >>],
                 Split(text, << NL >>))

\* A response of that form with distinct paths and non-blank contents
WellFormed(text) ==
    LET r == Sections(text)
    IN  /\ r.ok
        /\ r.phase \in {"pre", "next"}
        /\ \A i \in 1..Len(r.secs) :
               /\ r.secs[i].path # << >>
               /\ Strip(Join(r.secs[i].body, NL)) # << >>
               /\ \A j \in 1..Len(r.secs) : r.secs[i].path = r.secs[j].path => i = j

\* C10: for a response made of sections (a FILE: line, an opening fence
\* line, content lines, a closing fence line) with distinct paths and
\* non-blank contents, after any lines before the first FILE: line,
\* _extract_code maps each path to its content lines joined by newlines and
\* trimmed, and holds no other key
C10_ExtractCodeSections ==
    (pc = "review" /\ WellFormed(response.value)) =>
        LET secs == Sections(response.value).secs
        IN  /\ Len(new_code) = Len(secs)
            /\ {new_code[i] : i \in 1..Len(new_code)}
                   = {<< secs[i].path, Strip(Join(secs[i].body, NL)) >> : i \in 1..Len(secs)}

\* C10 witness: two sections after a line of narration, parsed
C10_Witness ==
    /\ pc = "review"
    /\ WellFormed(response.value)
    /\ Len(Sections(response.value).secs) = 2
    /\ ~StartsWith(response.value, FILE_TAG)
    /\ Len(new_code) = 2

\* One line of a response read for narration: a FILE: line and a fence line
\* are kept, a fence line opens a block or closes the open one, and any
\* other line is dropped when it follows a closing fence
NarrationStep(r, line) ==
    IF StartsWith(line, FILE_TAG)
    THEN [kept |-> Append(r.kept, line), fence |-> "none"]
    ELSE IF StartsWith(line, FENCE)
    THEN [kept |-> Append(r.kept, line),
          fence |-> IF r.fence = "open" THEN "closed" ELSE "open"]
    ELSE IF r.fence = "closed" THEN r
    ELSE [r EXCEPT !.kept = Append(r.kept, line)]

RECURSIVE NarrationFold(_, _)
NarrationFold(r, lines) ==
    IF lines = << >> THEN r
    ELSE NarrationFold(NarrationStep(r, Head(lines)), Tail(lines))

\* The response without the lines that follow a closing fence up to the
\* next FILE: line, the next fence line or the end
WithoutNarration(text) ==
    Join(NarrationFold([kept |-> << >>, fence |-> "none"], Split(text, << NL >>)).kept,
         NL)

\* C18: in code-mode the lines that follow a closing fence are never
\* appended to the file that was open before the fence, so _extract_code
\* returns what it returns for the response without those lines
C18_NarrationNotAppended ==
    (pc = "review" /\ ~response.raised) =>
        new_code = ExtractCode(WithoutNarration(response.value))

\* C20: every path of the mapping _extract_code returns, and every path of
\* the plan's project_structure, maps to content that is not empty after
\* trimming
C20_NoEmptyEntry ==
    /\ pc = "review" =>
           \A i \in 1..Len(new_code) : Strip(new_code[i][2]) # << >>
    /\ \A i \in 1..Len(project_plan.project_structure) :
           Strip(project_plan.project_structure[i][2]) # << >>

\* ------------------------------------------------------------------------
\* Plan responses of every shape, for _parse_response
\* ------------------------------------------------------------------------

PathX == << "x" >>
Foo == << "F", "o", "o" >>
NameLine(n) == PROJECT_NAME_TAG \o << " " >> \o n

\* TASKS: a, b , c
SpacedTasks == << "a", ",", " ", "b", " ", ",", " ", "c" >>
SpacedTasksLine == TASKS_TAG \o << " " >> \o SpacedTasks

\* A plan response: its name line, its task line and one fenced section
PlanText(n, items, path, content) ==
    Lines(<< NameLine(n), TASKS_TAG \o << " " >> \o items >>
          \o SectionOf(FileLine(path), FENCE, content))

PlanBlocks ==
    {<< NameLine(Foo) >>,
     << SpacedTasksLine >>,
     SectionOf(FileLine(PathX), FENCE, << << "1" >> >>),
     << FileLine(PathX), << "2" >> >>,
     << << " " >> \o FileLine(PathX), << " ", "3" >> >>,
     << FileLine(PathB), << " " >> >>,
     << Chat >>}

RECURSIVE PlanBlockLines(_)
PlanBlockLines(k) ==
    IF k = 0 THEN {<< >>}
    ELSE LET prev == PlanBlockLines(k - 1)
         IN  prev \cup {t \o b : t \in prev, b \in PlanBlocks}

PlanTexts == {Ok(Lines(ls)) : ls \in PlanBlockLines(MaxBlocks)}

\* Code responses that name one path twice
TwiceCodeOutcomes ==
    {Ok(Lines(<< FileLine(PathA), << "1" >>, FileLine(PathA), << "2" >> >>)),
     Ok(Lines(Section(PathA, << "1" >>) \o Section(PathA, << >>)))}

NextPlan ==
    \/ ShowMenu(OneMenuInput)
    \/ GenerateName(OneNameOutcome)
    \/ GeneratePlan(PlanTexts)
    \/ GenerateCode(TwiceCodeOutcomes)

SpecPlan == Init /\ [][NextPlan]_vars

\* C11: for the response made of PROJECT_NAME: Foo, TASKS: a, b , c and
\* FILE: x followed by a fenced block holding the line 1, the plan has the
\* name Foo, the tasks a, b, c and a project_structure mapping x to 1
C11_PlanOfExample ==
    (pc = "gen" /\ task_idx = 1
     /\ response = Ok(PlanText(Foo, SpacedTasks, PathX, << << "1" >> >>))) =>
        /\ project_plan.project_name = Foo
        /\ project_plan.tasks = << << "a" >>, << "b" >>, << "c" >> >>
        /\ project_plan.project_structure = << << PathX, << "1" >> >> >>

\* The lines of a response from the last FILE: line naming a path on; mode
\* is "plan" when lines are trimmed before they are read, "code" when not
FromLastFileLine(text, path, mode) ==
    LET lines == Split(text, << NL >>)
        Names(i) == LET line == IF mode = "plan" THEN Strip(lines[i]) ELSE lines[i]
                    IN  /\ StartsWith(line, FILE_TAG)
                        /\ Strip(Drop(line, Len(FILE_TAG))) = path
        last == CHOOSE i \in 1..Len(lines) :
                    Names(i) /\ \A j \in (i + 1)..Len(lines) : ~Names(j)
    IN  Join(Drop(lines, last - 1), NL)

\* C19: in both modes the content of a path is made only of lines that
\* follow the last FILE: line naming it: it is the content the parser gives
\* the path for the response cut to start at that line
C19_FileLineOpensFresh ==
    /\ (pc = "gen" /\ task_idx = 1 /\ ~response.raised) =>
           \A i \in 1..Len(project_plan.project_structure) :
               LET path == project_plan.project_structure[i][1]
                   cut == ParseResponse(FromLastFileLine(response.value, path, "plan"),
                                        project_name, now).project_structure
               IN  HasKey(cut, path)
                   /\ project_plan.project_structure[i][2] = Get(cut, path)
    /\ (pc = "review" /\ ~response.raised) =>
           \A i \in 1..Len(new_code) :
               LET path == new_code[i][1]
                   cut == ExtractCode(FromLastFileLine(response.value, path, "code"))
               IN  HasKey(cut, path) /\ new_code[i][2] = Get(cut, path)

\* ------------------------------------------------------------------------
\* The merge of the batches of the tasks
\* ------------------------------------------------------------------------

\* The approved reviews whose batch holds a path
ApprovedWith(path) == {j \in Approved : HasKey(reviews[j].batch, path)}

\* C12: after the generation loop, the paths of code_artifacts are the
\* paths of the batches generate_code returned for the tasks (the approved
\* ones), and each path maps to the content given by the latest such task
C12_LastTaskWins ==
    name_checked =>
        /\ Keys(code_artifacts) = {path \in GeneratedPaths : ApprovedWith(path) # {}}
        /\ \A path \in Keys(code_artifacts) :
               LET last == CHOOSE j \in ApprovedWith(path) :
                               \A k \in ApprovedWith(path) : k <= j
               IN  Get(code_artifacts, path) = Get(reviews[last].batch, path)

\* C12 witness: the loop is over and two approved tasks gave one path
\* different contents
C12_Witness ==
    /\ name_checked
    /\ \E path \in Keys(code_artifacts) :
           \E j, k \in ApprovedWith(path) :
               j < k /\ Get(reviews[j].batch, path) # Get(reviews[k].batch, path)

\* ------------------------------------------------------------------------
\* Deployments of batches with paths of every shape, on a disk that may hold
\* the project already, run once or again with the same project_data
\* ------------------------------------------------------------------------

MaxDeploys == 2

DotPathA == << ".", SLASH >> \o PathA
AbsPath_e == << SLASH, "e" >>
UpPathX == << ".", ".", SLASH >> \o PathX
NestedPathB == << "d", SLASH >> \o PathB
UnderPathA == PathA \o << SLASH >> \o PathB

DeployCodeOutcomes ==
    {Ok(Lines(Section(PathA, << "x" >>))),
     Ok(Lines(Section(PathA, << "x" >>) \o Section(DotPathA, << "y" >>))),
     Ok(Lines(Section(AbsPath_e, << "x" >>))),
     Ok(Lines(Section(UpPathX, << "y" >>) \o Section(PathB, << "x" >>))),
     Ok(Lines(Section(NestedPathB, << "x" >>) \o Section(PathA, << "y" >>))),
     Ok(Lines(Section(PathA, << "x" >>) \o Section(UnderPathA, << "y" >>)))}

\* A disk on which the project directory holds a file already
UsedDisk ==
    [dirs |-> MadeDirs(DeployDir(<< "N", "m" >>)),
     fs |-> {<< NormPath(WritePath(DeployDir(<< "N", "m" >>), PathA)), << "o" >> >>}]

InitDeploy == InitOn(Requests, {EmptyDisk, UsedDisk}, {NoDb})

\* deploy_project is called again with the project_data of its last call
DeployAgain ==
    /\ pc = "done"
    /\ deploys < MaxDeploys
    /\ pc' = "deploy"
    /\ UNCHANGED << err, user_request, now, selected, project_name,
                    project_plan, task_idx, response, new_code, code_artifacts,
                    root, write_idx, dirs, fs, calls, reviews, deploys, writes,
                    name_checked, once, db >>

NextDeploy ==
    \/ ShowMenu(OneMenuInput)
    \/ GenerateName(OneNameOutcome)
    \/ GeneratePlan(OnePlanOutcome)
    \/ GenerateCode(DeployCodeOutcomes)
    \/ Review
    \/ NameCheck
    \/ BuildDeployArgs
    \/ DeployMkdir
    \/ WriteFile
    \/ DeployDone
    \/ DeployAgain

SpecDeploy == InitDeploy /\ [][NextDeploy]_vars

\* The file a batch path names once root is the project directory
Location(file_path) == NormPath(WritePath(root, file_path))

\* C13: every file _write_project_files writes lies under the project
\* directory, the normalized absolute path made from the project name,
\* whatever the path of the batch is
C13_WritesUnderRoot ==
    \A i \in 1..Len(writes) :
        StartsWith(Location(writes[i][1]), root \o << SLASH >>)

\* C14: after a deployment that completed without error, the file each path
\* of the batch names holds the content the batch maps the path to
C14_RoundTrip ==
    pc = "done" =>
        \A i \in 1..Len(code_artifacts) :
            ReadFile(fs, Location(code_artifacts[i][1])) = code_artifacts[i][2]

\* C15: when deploy_project has returned a second time for the same
\* project_data, the files and the directories are those its first return
\* left
C15_DeployIdempotent ==
    (pc = "done" /\ deploys >= 2) => (fs = once.fs /\ dirs = once.dirs)

\* C15 witness: a second deployment has written a batch of two files again
C15_Witness ==
    /\ pc = "done"
    /\ deploys = 2
    /\ Len(code_artifacts) = 2
    /\ Len(writes) = 4
    /\ \A i \in 1..2 : writes[i] = writes[i + 2]

\* The run ended on an error of the write of item write_idx of the batch
WriteFailed ==
    pc = "failed" /\ err = "OSError" /\ root # None /\ deploys = 1

\* C16: when the write of the k-th item of the batch fails, the run ends
\* failed on that error with nothing left to do, the items written are the
\* k-1 items before it, each written once, and the files are exactly what
\* those writes left
C16_NotTransactional ==
    WriteFailed =>
        /\ write_idx \in 1..Len(code_artifacts)
        /\ writes = SubSeq(code_artifacts, 1, write_idx - 1)
        /\ {f[1] : f \in fs} = {Location(writes[i][1]) : i \in 1..Len(writes)}
        /\ \A i \in 1..Len(writes) :
               (\A j \in (i + 1)..Len(writes) :
                    Location(writes[j][1]) # Location(writes[i][1]))
               => ReadFile(fs, Location(writes[i][1])) = writes[i][2]
        /\ ~ENABLED Next

\* C16 witness: the write of the second item of a batch failed after the
\* first was written
C16_Witness ==
    /\ WriteFailed
    /\ write_idx = 2
    /\ Len(code_artifacts) = 2
    /\ fs = {<< Location(code_artifacts[1][1]), code_artifacts[1][2] >>}

\* ------------------------------------------------------------------------
\* DatabaseManager.apply_migrations, called from the main menu
\* ------------------------------------------------------------------------

MaxMigrations == 3
MaxCalls == 2

\* Lists of migration file names; a name is written as its rank in sorted order
MigrationLists ==
    {s \in UNION {[1..k -> 1..MaxMigrations] : k \in 0..MaxMigrations} :
         \A i \in 1..(Len(s) - 1) : s[i] < s[i + 1]}

\* The migrations directory as sorted(os.listdir(...)) gives it, and the
\* 'migrations' list of the persisted config
MigrateDbs ==
    {[NoDb EXCEPT !.files = files, !.config = config] :
         files \in MigrationLists, config \in MigrationLists}

InitMigrate == InitOn(Requests, {EmptyDisk}, MigrateDbs)

\* apply_migrations, lines 103-105: the config is read once
ApplyStart ==
    /\ db.pc = "idle"
    /\ db.returned < MaxCalls
    /\ db' = [db EXCEPT !.pc = "loop", !.applied = db.config, !.idx = 1]
    /\ UNCHANGED << pc, err, user_request, now, selected, project_name,
                    project_plan, task_idx, response, new_code, code_artifacts,
                    root, write_idx, dirs, fs, calls, reviews, deploys, writes,
                    name_checked, once >>

\* apply_migrations, lines 107-110: one file of the loop; _run_migration
\* runs it or raises, and the update stores applied + [migration]
MigrateStep ==
    /\ db.pc = "loop"
    /\ db.idx <= Len(db.files)
    /\ LET migration == db.files[db.idx]
       IN  IF \E i \in 1..Len(db.applied) : db.applied[i] = migration
           THEN db' = [db EXCEPT !.idx = db.idx + 1]
           ELSE \/ db' = [db EXCEPT
                             !.ran = Append(db.ran, << db.returned + 1, migration >>),
                             !.config = Append(db.applied, migration),
                             !.idx = db.idx + 1]
                \/ db' = [db EXCEPT !.pc = "failed"]
    /\ UNCHANGED << pc, err, user_request, now, selected, project_name,
                    project_plan, task_idx, response, new_code, code_artifacts,
                    root, write_idx, dirs, fs, calls, reviews, deploys, writes,
                    name_checked, once >>

\* apply_migrations returns when the loop is over
ApplyReturn ==
    /\ db.pc = "loop"
    /\ db.idx > Len(db.files)
    /\ db' = [db EXCEPT !.pc = "idle", !.returned = db.returned + 1]
    /\ UNCHANGED << pc, err, user_request, now, selected, project_name,
                    project_plan, task_idx, response, new_code, code_artifacts,
                    root, write_idx, dirs, fs, calls, reviews, deploys, writes,
                    name_checked, once >>

NextMigrate ==
    \/ ApplyStart
    \/ MigrateStep
    \/ ApplyReturn

SpecMigrate == InitMigrate /\ [][NextMigrate]_vars

\* C17: once apply_migrations has returned, every migration it ran is in the
\* 'migrations' list of the persisted config, and the calls that follow run
\* no migration
C17_MigrationsIdempotent ==
    /\ (db.pc = "idle" /\ db.returned >= 1) =>
           \A r \in 1..Len(db.ran) :
               \E i \in 1..Len(db.config) : db.config[i] = db.ran[r][2]
    /\ \A r \in 1..Len(db.ran) : db.ran[r][1] = 1

\* ------------------------------------------------------------------------
\* The order of the stages of one run
\* ------------------------------------------------------------------------

\* The backend calls of a run whose plan and tasks all returned: the name,
\* the plan, and one code generation for each task of the plan
CallsOfPlan == << "name", "plan" >> \o [i \in 1..Len(project_plan.tasks) |-> "code"]

\* C22: deploy_project is invoked at most once in a run, and only when the
\* plan call and one code-generation call for each task of the plan, made
\* in the order of the task list, have returned; and once a file is written
\* no backend call is made
C22_DeployLast ==
    /\ [](/\ deploys <= 1
          /\ deploys = 1 =>
                 /\ calls = CallsOfPlan
                 /\ Len(reviews) = Len(project_plan.tasks)
                 /\ \A j \in 1..Len(reviews) : reviews[j].task = j)
    /\ [][writes # << >> => calls' = calls]_vars

\* C22 witness: a run over a plan of two tasks has deployed files
C22_Witness ==
    /\ pc = "done"
    /\ deploys = 1
    /\ Len(project_plan.tasks) = 2
    /\ writes # << >>

\* ------------------------------------------------------------------------
\* The existing code shown to the reviewer
\* ------------------------------------------------------------------------

\* The file deploy_project will write for a path of the batch
Target(file_path) ==
    NormPath(WritePath(DeployDir(project_plan.project_name), file_path))

\* C21: for every path of an approved batch, before the deployment, the
\* existing code the review was given is read from the very file the
\* deployment will write for the path, is the content of that file, and is
\* empty exactly when that file does not exist
C21_SnapshotOfTarget ==
    deploys = 0 =>
        \A j \in Approved :
            \A path \in Keys(reviews[j].batch) :
                /\ OpenPath(path) = Target(path)
                /\ Get(reviews[j].existing, path) =
                       (IF ReadFile(fs, Target(path)) = None THEN << >>
                        ELSE ReadFile(fs, Target(path)))
                /\ Get(reviews[j].existing, path) = << >>
                       <=> ReadFile(fs, Target(path)) = None

====
